---- MODULE Spec2Model ----
(***************************************************************************)
(* Workflow orchestration of Agents_Playground.                            *)
(*                                                                         *)
(* Three programs are modelled, selected by the variable `pipeline`:       *)
(*   "A"  app/Custom_Agent/agent.py               (StoryFlowAgent)         *)
(*   "B"  app/Blog_Generator_Custom_Agent/agent.py (BlogGeneratorAgent)    *)
(*   "S"  app/Sequenrial_Workflow_Agent/agent.py   (code_pipeline_agent)   *)
(*                                                                         *)
(* Each program has two threads of control.  The producer is the agent     *)
(* tree run by runner.run(): the orchestrator's _run_async_impl, the       *)
(* SequentialAgent / LoopAgent composites it delegates to, and the         *)
(* LlmAgent work units.  The consumer is call_agent(), which pulls the     *)
(* events the producer emitted.  runner.run() hands events over through a  *)
(* queue, so the producer keeps running after the consumer has left its    *)
(* loop.                                                                   *)
(*                                                                         *)
(* SequentialAgent, LoopAgent and LlmAgent are library classes.  The       *)
(* composites are modelled by the iteration they perform over the          *)
(* sub_agents they are constructed with: a SequentialAgent runs every      *)
(* sub-agent once, in order; a LoopAgent runs the whole list               *)
(* max_iterations times.  Neither looks at the session state.  An LlmAgent *)
(* ends every invocation with one final event; when that event carries     *)
(* text, the text is stored under the agent's output_key.                  *)
(***************************************************************************)
EXTENDS Integers, Sequences, FiniteSets, TLC

\* ---------------------------------------------------------------- bounds
\* Events the producer may be ahead of a consumer that is still pulling.
MaxQueue == 1
\* Non-final events the tool-using work units emit in one run.
MaxIntermediate == 1

\* ---------------------------------------------------------------- values
Absent == "<absent>"            \* key not in the session state
NoPayload == "<no content>"     \* event.content is None or has no parts
NoKey == "<no output_key>"      \* LlmAgent constructed without output_key
NoUnit == "<none>"              \* no work unit is executing
Unbound == "<unbound>"          \* local variable not assigned yet
NoError == "<no error logged>"

\* Texts the generation capability may return ("" is an empty answer).
Text == {"", "a", "b"}
\* Answers of tone_checker: the three tags it is instructed to use, or none.
ToneText == {"", "positive", "negative", "neutral"}
\* The text of an event that is not a final response.
PartialText == "partial"
\* Topics a caller may pass to call_agent.
Topics == {"t1", "t2"}

Pipelines == {"A", "B", "S"}

\* ------------------------------------------------------------ work units
story_generator == "story_generator"
critic == "critic"
reviser == "reviser"
grammar_checker == "grammar_checker"
tone_checker == "tone_checker"

title_generator == "Title_Generator"
structure_generator == "Structure_Generator"
blog_generator == "Blog_Generator"
seo_optimizer == "SEO_Optimizer"
html_generator == "HTML_Generator"
review_agent == "Review_Agent"

code_generation_agent == "code_generation_agent"
code_review_agent == "code_review_agent"
code_refactoring_agent == "code_refactoring_agent"

UnitsA == {story_generator, critic, reviser, grammar_checker, tone_checker}
UnitsB == {title_generator, structure_generator, blog_generator,
           seo_optimizer, html_generator, review_agent}
UnitsS == {code_generation_agent, code_review_agent, code_refactoring_agent}
Units == UnitsA \cup UnitsB \cup UnitsS

\* output_key=... of every LlmAgent(...) construction.
output_key(u) ==
    CASE u = story_generator -> "current_story"
      [] u = critic -> "critique"
      [] u = reviser -> "current_story"
      [] u = grammar_checker -> "grammar_check_result"
      [] u = tone_checker -> "tone_check_result"
      [] u = title_generator -> "blog_title"
      [] u = structure_generator -> "blog_structure"
      [] u = blog_generator -> "blog_content"
      [] u = seo_optimizer -> "optimized_blog_content"
      [] u = html_generator -> "html_code"
      [] u = review_agent -> "review_result"
      [] u = code_generation_agent -> "generated_code"
      [] u = code_review_agent -> "code_review"
      [] OTHER -> NoKey

\* Work units constructed with tools=[google_search].
ToolUnits == {structure_generator, blog_generator}

KeysA == {"topic", "current_story", "critique", "grammar_check_result",
          "tone_check_result"}
KeysB == {"blog_topic", "blog_title", "blog_structure", "blog_content",
          "optimized_blog_content", "html_code", "review_result"}
KeysS == {"generated_code", "code_review"}
Keys == KeysA \cup KeysB \cup KeysS

\* Work units whose output key an orchestrator tests for emptiness.
GateUnits == {story_generator, reviser, structure_generator, blog_generator,
              html_generator}

\* What the generation capability may answer to a work unit.  The work
\* units of pipelines A and S answer any text.  Those of pipeline B answer
\* a text of their own (named after the unit, so that the outputs of two
\* units are never equal) or, where emptiness is tested, nothing.
Answers(u) ==
    CASE u = tone_checker -> ToneText
      [] u \in UnitsA \cup UnitsS -> Text
      [] u \in GateUnits -> {"", u}
      [] OTHER -> {u}

AllAnswers == UNION {Answers(u) : u \in Units}

\* ------------------------------------------------------------ composites
\* StoryFlowAgent.__init__
StoryFlow_max_iterations == 2
StoryFlow_loop_agent ==
    [kind |-> "loop", sub_agents |-> <<critic, reviser>>,
     max_iterations |-> StoryFlow_max_iterations]
StoryFlow_sequential_agent ==
    [kind |-> "seq", sub_agents |-> <<grammar_checker, tone_checker>>,
     max_iterations |-> 1]

\* BlogGeneratorAgent.__init__
BlogGen_max_iterations == 3
BlogGen_second_max_iterations == 3
BlogGen_sequential_agent ==
    [kind |-> "seq", sub_agents |-> <<title_generator, structure_generator>>,
     max_iterations |-> 1]
BlogGen_loop_agent ==
    [kind |-> "loop", sub_agents |-> <<blog_generator, seo_optimizer>>,
     max_iterations |-> BlogGen_max_iterations]
BlogGen_second_loop_agent ==
    [kind |-> "loop", sub_agents |-> <<html_generator, review_agent>>,
     max_iterations |-> BlogGen_second_max_iterations]

\* Sequenrial_Workflow_Agent: root_agent
code_pipeline_agent ==
    [kind |-> "seq",
     sub_agents |-> <<code_generation_agent, code_review_agent,
                      code_refactoring_agent>>,
     max_iterations |-> 1]

\* A work unit run directly by an orchestrator.
Single(u) == [kind |-> "seq", sub_agents |-> <<u>>, max_iterations |-> 1]

\* --------------------------------------------------- producer's positions
\* A position is named after the pipeline and the source line of the
\* statement the producer is at.
RunPcs == {"A100", "A110", "A115", "A124", "B114", "B127", "B141", "S63"}

\* The agent whose run_async(ctx) is iterated at a position.
AgentAt(p) ==
    CASE p = "A100" -> Single(story_generator)
      [] p = "A110" -> StoryFlow_loop_agent
      [] p = "A115" -> StoryFlow_sequential_agent
      [] p = "A124" -> Single(story_generator)
      [] p = "B114" -> BlogGen_sequential_agent
      [] p = "B127" -> BlogGen_loop_agent
      [] p = "B141" -> BlogGen_second_loop_agent
      [] OTHER -> code_pipeline_agent

\* Mutant: after the story is regenerated the grammar and tone sequence is
\* run again.
AfterAgent_RechecksRetry(p) ==
    CASE p = "A100" -> "A103"
      [] p = "A110" -> "A115"
      [] p = "A115" -> "A120"
      [] p = "A124" -> "A115"
      [] p = "B114" -> "B118"
      [] p = "B127" -> "B133"
      [] p = "B141" -> "B145"
      [] OTHER -> "done"

\* The statement that follows the `async for` at a position.
AfterAgent(p) ==
    CASE p = "A100" -> "A103"
      [] p = "A110" -> "A115"
      [] p = "A115" -> "A120"
      [] p = "A124" -> "A126"
      [] p = "B114" -> "B118"
      [] p = "B127" -> "B133"
      [] p = "B141" -> "B145"
      [] OTHER -> "done"

FirstPc(pl) == CASE pl = "A" -> "A100" [] pl = "B" -> "B114" [] OTHER -> "S63"

\* ------------------------------------------------------------ predicates
\* Mutant: only the presence of the key is tested.
Missing_NotIn(s, k) == s[k] = Absent

\* `key not in state or not state[key]`
Missing(s, k) == s[k] = Absent \/ s[k] = ""

\* Mutant: every tone but "positive" asks for a new story.
ToneIsNegative_NotPositive(tone) == tone # "positive"

\* Mutant: a missing tone asks for a new story as "negative" does.
ToneIsNegative_OrAbsent(tone) == tone \in {"negative", Absent}

\* `tone == "negative"`
ToneIsNegative(tone) == tone = "negative"

\* Mutant: the loop runs one iteration too many.
LoopContinues_OffByOne(times, max) == times <= max

\* Mutant: the loop runs one iteration too few.
LoopContinues_Short(times, max) == times + 1 < max

\* LoopAgent: another iteration is run while times_looped < max_iterations.
LoopContinues(times, max) == times < max

\* `event.content and event.content.parts`
HasContent(e) == e.payload # NoPayload

\* Mutant: the loop stops at any final event, with content or not.
StopsLoop_AnyFinal(e) == e.isFinal

\* `event.is_final_response() and event.content and event.content.parts`
StopsLoop(e) == e.isFinal /\ HasContent(e)


\* ----------------------------------------------------------------- state
VARIABLES
    pipeline,        \* which program runs
    seed,            \* session state the run started from
    state,           \* session.state
    written,         \* per key: the value last stored under it in this run
    all_wrote,       \* every invocation so far stored a non-empty value
    logged,          \* the message of logger.error, once one is logged
    pc,              \* producer: position in the orchestrator
    idx,             \* producer: index of the current sub-agent
    times_looped,    \* producer: LoopAgent's iteration counter
    running,         \* the work unit that is executing, or NoUnit
    inter,           \* non-final events emitted so far
    invoked,         \* per work unit: invocations started
    finished,        \* per work unit: invocations whose final event is out
    trace,           \* every event emitted so far: source and isFinal
    lastEvent,       \* the event emitted last
    queue,           \* events emitted and not yet pulled by call_agent
    cpc,             \* consumer: position in call_agent
    pulled,          \* consumer: the events pulled so far
    forwarded,       \* consumer: the "Intermediate response" texts, in order
    final_response,  \* consumer: final(ly)_response_content
    final_state      \* consumer: final_session.state as read after the loop

vars == <<pipeline, seed, state, written, all_wrote, logged, pc, idx, times_looped, running,
          inter, invoked, finished, trace, lastEvent, queue, cpc, pulled,
          forwarded, final_response, final_state>>

producerVars == <<state, written, all_wrote, logged, pc, idx, times_looped, running, inter,
                  invoked, finished, trace, lastEvent>>
consumerVars == <<cpc, pulled, forwarded, final_response, final_state>>

EmptyState == [k \in Keys |-> Absent]

\* final_session of call_agent before the session is read after the loop
NoState == [k \in Keys |-> "<not read>"]

\* Session states a run can start from: the state the module creates the
\* session with, or what an earlier call_agent on the same session left.
SeedStates(pl) ==
    CASE pl = "A" ->
           { [EmptyState EXCEPT !["topic"] = "t0"],
             [EmptyState EXCEPT !["topic"] = "t0", !["current_story"] = "b",
                                !["critique"] = "b",
                                !["grammar_check_result"] = "b",
                                !["tone_check_result"] = "negative"] }
      [] pl = "B" ->
           { EmptyState,
             [k \in Keys |-> IF k \in KeysB THEN "b" ELSE Absent] }
      [] OTHER ->
           { EmptyState,
             [k \in Keys |-> IF k \in KeysS THEN "b" ELSE Absent] }

NoEvent == [source |-> NoUnit, payload |-> NoPayload, isFinal |-> FALSE]

Init ==
    /\ pipeline \in Pipelines
    /\ seed \in SeedStates(pipeline)
    /\ state = seed
    /\ written = EmptyState
    /\ all_wrote = TRUE
    /\ logged = NoError
    /\ pc = "idle"
    /\ idx = 1
    /\ times_looped = 0
    /\ running = NoUnit
    /\ inter = 0
    /\ invoked = [u \in Units |-> 0]
    /\ finished = [u \in Units |-> 0]
    /\ trace = <<>>
    /\ lastEvent = NoEvent
    /\ queue = <<>>
    /\ cpc = "start"
    /\ pulled = <<>>
    /\ forwarded = <<>>
    /\ final_response = Unbound
    /\ final_state = NoState

\* ------------------------------------------------------------- call_agent
\* call_agent up to runner.run(): the topic is stored in the session state
\* (pipelines A and B) and the agent tree is started.
TopicKey(pl) == IF pl = "A" THEN "topic" ELSE "blog_topic"

\* The value final(ly)_response_content has before the loop.
ResponseDefault(pl) == IF pl = "B" THEN Unbound ELSE "No final response received."

\* Variant: the topic is stored only when the session has none yet.
CallAgent_KeepsOldTopic(t) ==
    /\ cpc = "start"
    /\ state' = IF pipeline = "S" \/ state[TopicKey(pipeline)] # Absent
                THEN state
                ELSE [state EXCEPT ![TopicKey(pipeline)] = t]
    /\ final_response' = ResponseDefault(pipeline)
    /\ cpc' = "loop"
    /\ pc' = FirstPc(pipeline)
    /\ UNCHANGED <<pipeline, seed, written, all_wrote, logged, idx,
                   times_looped, running, inter, invoked, finished, trace,
                   lastEvent, queue, pulled, forwarded, final_state>>

CallAgent(t) ==
    /\ cpc = "start"
    /\ state' = IF pipeline = "S" THEN state
                ELSE [state EXCEPT ![TopicKey(pipeline)] = t]
    /\ final_response' = ResponseDefault(pipeline)
    /\ cpc' = "loop"
    /\ pc' = FirstPc(pipeline)
    /\ UNCHANGED <<pipeline, seed, written, all_wrote, logged, idx,
                   times_looped, running, inter, invoked, finished, trace,
                   lastEvent, queue, pulled, forwarded, final_state>>

\* call_agent of pipelines A and B looks the session up first and returns
\* when there is none: nothing is stored and the agent tree is not started.
\* The sequential workflow's call_agent has no lookup.
SessionNotFound ==
    /\ cpc = "start"
    /\ pipeline \in {"A", "B"}
    /\ cpc' = "not_found"
    /\ UNCHANGED <<pipeline, seed, queue, pulled, forwarded, final_response,
                   final_state>>
    /\ UNCHANGED producerVars

\* --------------------------------------------------------------- producer
\* An event can be handed over when the consumer's queue has room; events
\* emitted after call_agent has left its loop are never read.
CanEmit == cpc # "loop" \/ Len(queue) < MaxQueue

\* Mutant: an orchestrator that forwards only the final events of its
\* children.
Emit_DropsPartial(e) ==
    /\ trace' = IF e.isFinal
                THEN Append(trace, [source |-> e.source, isFinal |-> e.isFinal])
                ELSE trace
    /\ lastEvent' = e
    /\ queue' = IF cpc = "loop" /\ e.isFinal THEN Append(queue, e) ELSE queue

Emit(e) ==
    /\ trace' = Append(trace, [source |-> e.source, isFinal |-> e.isFinal])
    /\ lastEvent' = e
    /\ queue' = IF cpc = "loop" THEN Append(queue, e) ELSE queue

\* Mutant: the sub-agents are run from the last to the first.
CurrentUnit_Reversed ==
    AgentAt(pc).sub_agents[Len(AgentAt(pc).sub_agents) + 1 - idx]

CurrentUnit == AgentAt(pc).sub_agents[idx]

\* Mutant: the next sub-agent is entered while the one before it has not
\* returned.
StartUnit_NoWait ==
    /\ pc \in RunPcs
    /\ invoked[CurrentUnit] <= finished[CurrentUnit] + 1
    /\ running' = CurrentUnit
    /\ invoked' = [invoked EXCEPT ![CurrentUnit] = @ + 1]
    /\ UNCHANGED <<pipeline, seed, state, written, all_wrote, logged, pc, idx,
                   times_looped, inter, finished, trace, lastEvent, queue>>
    /\ UNCHANGED consumerVars

\* sub_agent.run_async(ctx) is entered.
StartUnit ==
    /\ pc \in RunPcs
    /\ running = NoUnit
    /\ running' = CurrentUnit
    /\ invoked' = [invoked EXCEPT ![CurrentUnit] = @ + 1]
    /\ UNCHANGED <<pipeline, seed, state, written, all_wrote, logged, pc, idx,
                   times_looped, inter, finished, trace, lastEvent, queue>>
    /\ UNCHANGED consumerVars

\* The running work unit emits an event that is not its final response.
EmitIntermediate(p) ==
    /\ running \in ToolUnits
    /\ inter < MaxIntermediate
    /\ CanEmit
    /\ Emit([source |-> running, payload |-> p, isFinal |-> FALSE])
    /\ inter' = inter + 1
    /\ UNCHANGED <<pipeline, seed, state, written, all_wrote, logged, pc, idx,
                   times_looped, running, invoked, finished>>
    /\ UNCHANGED consumerVars

\* Mutant: a SequentialAgent that ends when a sub-agent has left its
\* output key missing.
NextPosition_Ladder(p, i, t) ==
    LET agent == AgentAt(p)
        key == output_key(agent.sub_agents[i]) IN
    IF i < Len(agent.sub_agents)
       /\ ~(agent.kind = "seq" /\ key # NoKey /\ Missing(state', key))
    THEN [pc |-> p, idx |-> i + 1, times_looped |-> t]
    ELSE IF agent.kind = "loop" /\ LoopContinues(t + 1, agent.max_iterations)
         THEN [pc |-> p, idx |-> 1, times_looped |-> t + 1]
         ELSE [pc |-> AfterAgent(p), idx |-> 1, times_looped |-> 0]

\* Mutant: a LoopAgent that is left as soon as a sub-agent has left its
\* output key missing.
NextPosition_LoopExits(p, i, t) ==
    LET agent == AgentAt(p)
        key == output_key(agent.sub_agents[i]) IN
    IF agent.kind = "loop" /\ key # NoKey /\ Missing(state', key)
    THEN [pc |-> AfterAgent(p), idx |-> 1, times_looped |-> 0]
    ELSE IF i < Len(agent.sub_agents)
         THEN [pc |-> p, idx |-> i + 1, times_looped |-> t]
         ELSE IF agent.kind = "loop"
                 /\ LoopContinues(t + 1, agent.max_iterations)
              THEN [pc |-> p, idx |-> 1, times_looped |-> t + 1]
              ELSE [pc |-> AfterAgent(p), idx |-> 1, times_looped |-> 0]

\* The position after the current sub-agent's run_async is exhausted:
\* the next sub-agent, the next iteration of a LoopAgent, or the statement
\* after the orchestrator's `async for`.
NextPosition(p, i, t) ==
    LET agent == AgentAt(p) IN
    IF i < Len(agent.sub_agents)
    THEN [pc |-> p, idx |-> i + 1, times_looped |-> t]
    ELSE IF agent.kind = "loop" /\ LoopContinues(t + 1, agent.max_iterations)
         THEN [pc |-> p, idx |-> 1, times_looped |-> t + 1]
         ELSE [pc |-> AfterAgent(p), idx |-> 1, times_looped |-> 0]

\* Mutant: every answer is stored under the story key.
SaveOutput_StoryKey(s, u, out) ==
    IF out # NoPayload /\ output_key(u) # NoKey
    THEN [s EXCEPT !["current_story"] = out]
    ELSE s

\* Mutant: an invocation that got no answer stores an empty text.
SaveOutput_StoresEmpty(s, u, out) ==
    IF output_key(u) # NoKey
    THEN [s EXCEPT ![output_key(u)] = IF out # NoPayload THEN out ELSE ""]
    ELSE s

\* Mutant: an invocation that got no answer removes the key.
SaveOutput_Clears(s, u, out) ==
    IF output_key(u) # NoKey
    THEN [s EXCEPT ![output_key(u)] = IF out # NoPayload THEN out ELSE Absent]
    ELSE s

\* Mutant: a key that already holds a value keeps it (first writer wins).
SaveOutput_KeepsFirst(s, u, out) ==
    IF out # NoPayload /\ output_key(u) # NoKey
    THEN [s EXCEPT ![output_key(u)] = IF @ = Absent THEN out ELSE @]
    ELSE s

\* The state after a final event with payload `out` of work unit u.
SaveOutput(s, u, out) ==
    IF out # NoPayload /\ output_key(u) # NoKey
    THEN [s EXCEPT ![output_key(u)] = out]
    ELSE s

\* The running work unit emits its final event and returns.  With a
\* payload the text is stored under the unit's output_key.
FinishUnit(out) ==
    /\ running # NoUnit
    /\ CanEmit
    /\ Emit([source |-> running, payload |-> out, isFinal |-> TRUE])
    /\ state' = SaveOutput(state, running, out)
    /\ written' = SaveOutput(written, running, out)
    /\ all_wrote' = (all_wrote /\ out \notin {NoPayload, ""})
    /\ finished' = [finished EXCEPT ![running] = @ + 1]
    /\ running' = NoUnit
    /\ LET n == NextPosition(pc, idx, times_looped) IN
         /\ pc' = n.pc
         /\ idx' = n.idx
         /\ times_looped' = n.times_looped
    /\ UNCHANGED <<pipeline, seed, logged, inter, invoked>>
    /\ UNCHANGED consumerVars

\* Mutant: an orchestrator that raises where the code logs and returns.
OrchestratorStep_Raises(p, missing, msg, q) ==
    /\ pc = p
    /\ running = NoUnit
    /\ pc' = IF missing THEN "raised" ELSE q
    /\ logged' = IF missing THEN msg ELSE logged
    /\ UNCHANGED <<pipeline, seed, state, written, all_wrote, idx,
                   times_looped, running, inter, invoked, finished, trace,
                   lastEvent, queue>>
    /\ UNCHANGED consumerVars

\* A step of an orchestrator between two `async for` statements: from
\* position p, with `missing` the outcome of the test made there, either
\* msg is logged as an error and the orchestrator returns, or it goes on
\* to position q.
OrchestratorStep(p, missing, msg, q) ==
    /\ pc = p
    /\ running = NoUnit
    /\ pc' = IF missing THEN "done" ELSE q
    /\ logged' = IF missing THEN msg ELSE logged
    /\ UNCHANGED <<pipeline, seed, state, written, all_wrote, idx,
                   times_looped, running, inter, invoked, finished, trace,
                   lastEvent, queue>>
    /\ UNCHANGED consumerVars

\* Mutant: the orchestrator goes on without testing current_story.
StoryCheckInitial_NoGate ==
    OrchestratorStep("A103", FALSE, "No story generated.", "A110")

\* Mutant: without a story the orchestrator skips the loop and the checks
\* and goes on at the test of the tone.
StoryCheckInitial_SkipsToBranch ==
    OrchestratorStep("A103", FALSE, "No story generated.",
                     IF Missing(state, "current_story") THEN "A120"
                     ELSE "A110")

\* StoryFlowAgent._run_async_impl, lines 103-107
StoryCheckInitial ==
    OrchestratorStep("A103", Missing(state, "current_story"),
                     "No story generated.", "A110")

\* StoryFlowAgent._run_async_impl, lines 120-130: nothing is logged as an
\* error; the story is regenerated or the workflow is complete.
StoryBranch ==
    /\ pc = "A120"
    /\ running = NoUnit
    /\ pc' = IF ToneIsNegative(state["tone_check_result"]) THEN "A124"
             ELSE "done"
    /\ UNCHANGED <<pipeline, seed, state, written, all_wrote, logged, idx,
                   times_looped, running, inter, invoked, finished, trace,
                   lastEvent, queue>>
    /\ UNCHANGED consumerVars

\* StoryFlowAgent._run_async_impl, line 126: state['current_story'] is
\* subscripted, which raises KeyError when the key is absent.
StoryLogRegenerated ==
    /\ pc = "A126"
    /\ running = NoUnit
    /\ pc' = IF state["current_story"] = Absent THEN "raised" ELSE "done"
    /\ UNCHANGED <<pipeline, seed, state, written, all_wrote, logged, idx,
                   times_looped, running, inter, invoked, finished, trace,
                   lastEvent, queue>>
    /\ UNCHANGED consumerVars

\* BlogGeneratorAgent._run_async_impl, lines 118-122
BlogCheckStructure ==
    OrchestratorStep("B118", Missing(state, "blog_structure"),
                     "No blog structure generated.", "B127")

\* Mutant: the check after the first loop tests the key SEO_Optimizer
\* writes.
BlogCheckContent_ChecksOptimized ==
    OrchestratorStep("B133", Missing(state, "optimized_blog_content"),
                     "No blog content generated.", "B141")

\* BlogGeneratorAgent._run_async_impl, lines 133-136
BlogCheckContent ==
    OrchestratorStep("B133", Missing(state, "blog_content"),
                     "No blog content generated.", "B141")

\* BlogGeneratorAgent._run_async_impl, lines 145-148: the last statement
\* of the orchestrator either way.
BlogCheckHtml ==
    OrchestratorStep("B145", Missing(state, "html_code"),
                     "No HTML code generated.", "done")

ProducerDone == pc \in {"done", "raised"}

\* --------------------------------------------------------------- consumer
\* One iteration of `for event in events` in call_agent.
ConsumeEvent ==
    /\ cpc = "loop"
    /\ queue # <<>>
    /\ LET e == Head(queue) IN
         /\ queue' = Tail(queue)
         /\ pulled' = Append(pulled, e)
         /\ forwarded' = IF HasContent(e) THEN Append(forwarded, e.payload)
                         ELSE forwarded
         /\ final_response' = IF StopsLoop(e) THEN e.payload ELSE final_response
         /\ cpc' = IF StopsLoop(e) THEN "after_loop" ELSE "loop"
    /\ UNCHANGED <<pipeline, seed, final_state>>
    /\ UNCHANGED producerVars

\* The event stream is exhausted and the loop ends without a break.
EndOfStream ==
    /\ cpc = "loop"
    /\ queue = <<>>
    /\ ProducerDone
    /\ cpc' = "after_loop"
    /\ UNCHANGED <<pipeline, seed, queue, pulled, forwarded, final_response,
                   final_state>>
    /\ UNCHANGED producerVars

\* After the loop: pipelines A and B read the session again and print its
\* state; the sequential workflow returns final_response_content.
ReadFinalState ==
    /\ cpc = "after_loop"
    /\ final_state' = IF pipeline = "S" THEN final_state ELSE state
    /\ cpc' = "returned"
    /\ UNCHANGED <<pipeline, seed, queue, pulled, forwarded, final_response>>
    /\ UNCHANGED producerVars

\* ------------------------------------------------------------------ spec
\* A run is followed until call_agent has returned: what the agent tree
\* does afterwards is observed by nobody.
ProducerNext ==
  /\ cpc # "returned"
  /\
    \/ StartUnit
    \/ EmitIntermediate(PartialText)
    \/ \E out \in AllAnswers \cup {NoPayload} :
          /\ running # NoUnit
          /\ out \in Answers(running) \cup {NoPayload}
          /\ FinishUnit(out)
    \/ StoryCheckInitial
    \/ StoryBranch
    \/ StoryLogRegenerated
    \/ BlogCheckStructure
    \/ BlogCheckContent
    \/ BlogCheckHtml

ConsumerNext ==
    \/ \E t \in Topics : CallAgent(t)
    \/ SessionNotFound
    \/ ConsumeEvent
    \/ EndOfStream
    \/ ReadFinalState

Next == ProducerNext \/ ConsumerNext

Spec == Init /\ [][Next]_vars

\* The producer is a thread of its own and every work unit answers; a
\* consumer that is in its loop takes the events that are there.
FairSpec == Spec /\ WF_vars(ProducerNext) /\ WF_vars(ConsumeEvent)

\* call_agent is straight-line code after its loop: when the event stream
\* has ended it leaves the loop, and then reads the session and returns.
FairRunSpec ==
    FairSpec /\ WF_vars(EndOfStream) /\ WF_vars(ReadFinalState)

\* ================================================================ claims
Total(S) ==
    LET RECURSIVE Sum(_)
        Sum(T) == IF T = {} THEN 0
                  ELSE LET u == CHOOSE x \in T : TRUE
                       IN invoked[u] + Sum(T \ {u})
    IN Sum(S)

\* ---------------------------------------------------------------------
\* C1  Single conditional retry.  In pipeline A story_generator is never
\* invoked more than twice; when the orchestrator has ended and the value
\* tone_checker stored in this run is "negative", story_generator was
\* invoked exactly twice; when it is "positive" or "neutral", exactly once.
C1_SingleConditionalRetry ==
    pipeline = "A" =>
      /\ invoked[story_generator] <= 2
      /\ pc = "done" =>
           /\ written["tone_check_result"] = "negative"
                => invoked[story_generator] = 2
           /\ written["tone_check_result"] \in {"positive", "neutral"}
                => invoked[story_generator] = 1

\* The orchestrator has ended after a retry that a "negative" written by
\* tone_checker asked for.
C1_Witness ==
    /\ pipeline = "A"
    /\ pc = "done"
    /\ written["tone_check_result"] = "negative"
    /\ finished[tone_checker] = 1
    /\ finished[story_generator] = 2

\* ---------------------------------------------------------------------
\* Stages of the two orchestrators, in the order they run.
Stage(u) ==
    CASE u \in {story_generator, title_generator, structure_generator} -> 1
      [] u \in {critic, reviser, blog_generator, seo_optimizer} -> 2
      [] OTHER -> 3

PipelineUnits(u) == IF u \in UnitsA THEN UnitsA ELSE UnitsB

LaterUnits(u) == {v \in PipelineUnits(u) : Stage(v) > Stage(u)}

\* The keys only the stages after u's write.
LaterKeys(u) ==
    {output_key(v) : v \in LaterUnits(u)}
      \ {output_key(v) : v \in PipelineUnits(u) \ LaterUnits(u)}

\* The key is absent from the session state or holds an empty value.
AbsentOrEmpty(k) == state[k] \in {Absent, ""}

\* The run started from the session state the module creates.
FreshSession == \A k \in Keys \ {"topic"} : seed[k] = Absent

\* Work unit u has run and has not stored anything under its output key.
FailedToWrite(u) == finished[u] >= 1 /\ written[output_key(u)] = Absent

\* C2 as stated: whenever any work unit of any stage of an orchestrator
\* has failed to write its output key, no work unit of a later stage is
\* invoked and no later stage writes a key (in a run on a fresh session).
C2_AsStated ==
    \A u \in UnitsA \cup UnitsB :
      (FreshSession /\ FailedToWrite(u)) =>
        /\ \A v \in LaterUnits(u) : invoked[v] = 0
        /\ \A k \in LaterKeys(u) : written[k] = Absent

\* C2, amended.  Only three keys gate a stage transition: current_story
\* after the first story_generator, blog_structure after the title and
\* structure sequence, blog_content after the first loop of pipeline B.
\* If the gate key is absent or empty when its stage has ended, the error
\* is logged and the orchestrator has ended: no work unit of a later stage
\* is invoked and no later stage writes a key.  The orchestrator is past a
\* gate only with the gate key present and non-empty.
C2_GateHalts ==
    /\ logged = "No story generated." =>
         /\ pc = "done"
         /\ invoked[story_generator] = 1
         /\ \A v \in LaterUnits(story_generator) : invoked[v] = 0
         /\ \A k \in LaterKeys(story_generator) : written[k] = Absent
    /\ logged = "No blog structure generated." =>
         /\ pc = "done"
         /\ \A v \in LaterUnits(structure_generator) : invoked[v] = 0
         /\ \A k \in LaterKeys(structure_generator) : written[k] = Absent
    /\ logged = "No blog content generated." =>
         /\ pc = "done"
         /\ \A v \in LaterUnits(blog_generator) : invoked[v] = 0
         /\ \A k \in LaterKeys(blog_generator) : written[k] = Absent
    /\ (pc = "A110" /\ finished[reviser] = 0) =>
         ~AbsentOrEmpty("current_story")
    /\ (pipeline = "A" /\ pc = "done" /\ invoked[critic] = 0) =>
         (AbsentOrEmpty("current_story") /\ logged = "No story generated.")
    /\ pc \in {"B127", "B133", "B141", "B145"} =>
         ~AbsentOrEmpty("blog_structure")
    /\ pc \in {"B141", "B145"} => ~AbsentOrEmpty("blog_content")
    /\ (pipeline = "B" /\ pc = "done" /\ AbsentOrEmpty("blog_structure")) =>
         logged = "No blog structure generated."
    /\ (pipeline = "B" /\ pc = "done" /\ ~AbsentOrEmpty("blog_structure")
          /\ AbsentOrEmpty("blog_content")) =>
         logged = "No blog content generated."

\* Blog_Generator ran three times without leaving a usable blog_content
\* and the orchestrator ended before the HTML and review loop.
C2_Witness ==
    /\ pipeline = "B"
    /\ logged = "No blog content generated."
    /\ finished[blog_generator] = 3
    /\ AbsentOrEmpty("blog_content")
    /\ pc = "done"

\* ---------------------------------------------------------------------
\* A composite run at position pos has run every sub-agent exactly n
\* times once it has been started and left, and never more than n times.
RunsEachChild(pos, agent, n) ==
    \A i \in 1..Len(agent.sub_agents) :
      LET c == agent.sub_agents[i] IN
      /\ invoked[c] <= n
      /\ (invoked[agent.sub_agents[1]] > 0 /\ pc # pos) =>
           (invoked[c] = n /\ finished[c] = n)

\* C3  Loop bound exactness.  Each of the three LoopAgents invokes each of
\* its sub-agents exactly max_iterations times (2 in pipeline A, 3 and 3
\* in pipeline B) once it is started, whatever the session state holds.
C3_LoopBoundExact ==
    /\ pipeline = "A" => RunsEachChild("A110", StoryFlow_loop_agent, 2)
    /\ pipeline = "B" => RunsEachChild("B127", BlogGen_loop_agent, 3)
    /\ pipeline = "B" => RunsEachChild("B141", BlogGen_second_loop_agent, 3)

\* The first loop of pipeline B has ended after three full iterations in
\* which Blog_Generator never stored a blog_content.
C3_Witness ==
    /\ pipeline = "B"
    /\ pc = "B133"
    /\ written["blog_content"] = Absent
    /\ finished[blog_generator] = 3
    /\ finished[seo_optimizer] = 3

\* ---------------------------------------------------------------------
\* In a SequentialAgent, a sub-agent that has ended with its output key
\* missing keeps the sub-agents after it from being invoked (in a run on
\* a fresh session).
ShortCircuits(agent) ==
    \A i \in 1..(Len(agent.sub_agents) - 1) :
      LET c == agent.sub_agents[i] IN
      (FreshSession /\ finished[c] >= 1 /\ output_key(c) # NoKey
         /\ AbsentOrEmpty(output_key(c))) =>
        \A j \in (i + 1)..Len(agent.sub_agents) :
          invoked[agent.sub_agents[j]] = 0

\* C4 as stated: a Sequential Composite ends early when a child has left
\* its required key missing; the children after it are never invoked.
C4_AsStated ==
    /\ pipeline = "S" => ShortCircuits(code_pipeline_agent)
    /\ pipeline = "B" => ShortCircuits(BlogGen_sequential_agent)
    /\ pipeline = "A" => ShortCircuits(StoryFlow_sequential_agent)

\* C4, amended.  A Sequential Composite never ends early: once started it
\* invokes every child exactly once, also after a child that has left its
\* output key absent or empty.
C4_SequenceRunsEveryChild ==
    /\ pipeline = "S" => RunsEachChild("S63", code_pipeline_agent, 1)
    /\ pipeline = "B" => RunsEachChild("B114", BlogGen_sequential_agent, 1)
    /\ pipeline = "A" => RunsEachChild("A115", StoryFlow_sequential_agent, 1)

\* code_generation_agent left generated_code missing and the two agents
\* after it have run all the same.
C4_Witness ==
    /\ pipeline = "S"
    /\ pc = "done"
    /\ AbsentOrEmpty("generated_code")
    /\ finished[code_review_agent] = 1
    /\ finished[code_refactoring_agent] = 1

\* ---------------------------------------------------------------------
\* The final events of the sub-agents of a SequentialAgent, as emitted.
FinalsOf(agent) ==
    LET IsFinalOf(e) ==
          e.isFinal /\ \E i \in 1..Len(agent.sub_agents) :
                          agent.sub_agents[i] = e.source
    IN SelectSeq(trace, IsFinalOf)

InDeclaredOrder(agent) ==
    /\ \A i \in 1..(Len(agent.sub_agents) - 1) :
         invoked[agent.sub_agents[i + 1]] <= finished[agent.sub_agents[i]]
    /\ Len(FinalsOf(agent)) <= Len(agent.sub_agents)
    /\ \A k \in 1..Len(FinalsOf(agent)) :
         FinalsOf(agent)[k].source = agent.sub_agents[k]

\* C5  Sequential order.  The children of a SequentialAgent end in the
\* declared order, and a child is started only after the final event of
\* the child before it has been emitted.
C5_SequentialOrder ==
    /\ pipeline = "S" => InDeclaredOrder(code_pipeline_agent)
    /\ pipeline = "A" => InDeclaredOrder(StoryFlow_sequential_agent)
    /\ pipeline = "B" => InDeclaredOrder(BlogGen_sequential_agent)

\* The third agent of the code pipeline is executing after the final
\* events of the first two.
C5_Witness ==
    /\ pipeline = "S"
    /\ running = code_refactoring_agent
    /\ Len(FinalsOf(code_pipeline_agent)) = 2
    /\ finished[code_generation_agent] = 1
    /\ finished[code_review_agent] = 1

\* ---------------------------------------------------------------------
OutputKeysB == {"blog_title", "blog_structure", "blog_content",
                "optimized_blog_content", "html_code", "review_result"}

\* C6 as stated: end-to-end state of pipeline B.  On a fresh session, with
\* every work unit invocation storing a non-empty value, the session state
\* call_agent reads after its loop holds all six output keys, each with
\* the value last written to it.
C6_AsStated ==
    (pipeline = "B" /\ cpc = "returned" /\ FreshSession /\ all_wrote) =>
      \A k \in OutputKeysB :
        final_state[k] # Absent /\ final_state[k] = written[k]

\* C7 as stated: end-to-end result of pipeline B.  When the orchestrator
\* has ended without an error and every invocation stored a non-empty
\* value, the final response call_agent reports is the payload of the
\* last event of the pipeline, which is state["review_result"].
C7_AsStated ==
    (pipeline = "B" /\ cpc \in {"after_loop", "returned"} /\ pc = "done"
       /\ logged = NoError /\ all_wrote) =>
      /\ final_response = lastEvent.payload
      /\ lastEvent.payload = state["review_result"]

\* ---------------------------------------------------------------------
PayloadsOf(events) == [i \in 1..Len(events) |-> events[i].payload]

\* A final event that carries a payload.
FinalWithPayload(e) == e.isFinal /\ e.payload # NoPayload

WithPayload(events) ==
    LET Carries(e) == e.payload # NoPayload IN SelectSeq(events, Carries)

\* The events are pulled in the order they were emitted; no event is
\* pulled after the first final event with a payload, whose payload is the
\* result; without such an event the result stays at the default.
StopRule ==
    /\ Len(pulled) <= Len(trace)
    /\ \A i \in 1..Len(pulled) :
         /\ pulled[i].source = trace[i].source
         /\ pulled[i].isFinal = trace[i].isFinal
    /\ \A i \in 1..(Len(pulled) - 1) : ~FinalWithPayload(pulled[i])
    /\ (pulled # <<>> /\ FinalWithPayload(pulled[Len(pulled)])) =>
         /\ cpc \in {"after_loop", "returned"}
         /\ final_response = pulled[Len(pulled)].payload
    /\ (pipeline \in {"A", "S"} /\ cpc \notin {"start", "not_found"}
          /\ (pulled = <<>> \/ ~FinalWithPayload(pulled[Len(pulled)]))) =>
         final_response = "No final response received."

\* C8 as stated: every event pulled is forwarded, in order, and the stop
\* rule holds.
C8_AsStated ==
    /\ forwarded = PayloadsOf(pulled)
    /\ StopRule

\* C8, amended.  The runner-driving loop forwards, in order, every event
\* it pulls that carries a payload (an event without content is pulled
\* and not forwarded), and the stop rule holds.
C8_RunnerStopRule ==
    /\ forwarded = PayloadsOf(WithPayload(pulled))
    /\ StopRule

\* call_agent pulled a final event without payload, then forwarded a
\* non-final event, then stopped at a final event with a payload.
C8_Witness ==
    /\ cpc = "after_loop"
    /\ Len(pulled) = 3
    /\ pulled[1].isFinal /\ pulled[1].payload = NoPayload
    /\ ~pulled[2].isFinal /\ pulled[2].payload # NoPayload
    /\ FinalWithPayload(pulled[3])
    /\ forwarded = <<pulled[2].payload, pulled[3].payload>>
    /\ final_response = pulled[3].payload

\* ---------------------------------------------------------------------
\* No run makes more work unit invocations than the static bound, and an
\* orchestrator that has ended has made exactly the number its path gives:
\* pipeline A 1 when the first story is missing, else 1 + 2*2 + 2 = 7, or
\* 8 with the retry; pipeline B 2, 2 + 3*2 = 8 or 2 + 3*2 + 3*2 = 14.
InvocationCounts ==
    /\ pc # "raised"
    /\ pipeline = "A" =>
         /\ Total(UnitsA) <= 8
         /\ Total(UnitsB \cup UnitsS) = 0
         /\ pc = "done" =>
              Total(UnitsA) =
                IF logged = "No story generated." THEN 1
                ELSE IF written["tone_check_result"] = "negative"
                        \/ (written["tone_check_result"] = Absent
                              /\ seed["tone_check_result"] = "negative")
                     THEN 8 ELSE 7
    /\ pipeline = "B" =>
         /\ Total(UnitsB) <= 14
         /\ Total(UnitsA \cup UnitsS) = 0
         /\ pc = "done" =>
              Total(UnitsB) =
                IF logged = "No blog structure generated." THEN 2
                ELSE IF logged = "No blog content generated." THEN 8
                     ELSE 14

\* C9  Bounded termination.  The invocation counts above hold in every
\* state, and every run that call_agent has started and does not return
\* from first ends with the orchestrator in its terminal state.
C9_BoundedTermination ==
    /\ []InvocationCounts
    /\ (cpc = "loop") ~> (pc = "done" \/ cpc = "returned")

\* Pipeline A has ended after a full run with the retry: 8 invocations.
C9_Witness ==
    /\ pipeline = "A"
    /\ pc = "done"
    /\ logged = NoError
    /\ Total(UnitsA) = 8
    /\ invoked[story_generator] = 2

\* ---------------------------------------------------------------------
\* The number of events emitted before the first event of work unit u.
EventsBefore(u) ==
    IF \E i \in 1..Len(trace) : trace[i].source = u
    THEN (CHOOSE i \in 1..Len(trace) :
            /\ trace[i].source = u
            /\ \A j \in 1..(i - 1) : trace[j].source # u) - 1
    ELSE Len(trace)

\* C10  Event count before grammar/tone.  Whenever grammar_checker has
\* been started in pipeline A, at least 1 + 2*2 = 5 events precede its
\* first event: one of story_generator, then critic and reviser twice.
C10_EventsBeforeGrammar ==
    (pipeline = "A" /\ invoked[grammar_checker] >= 1) =>
      /\ EventsBefore(grammar_checker) >= 5
      /\ <<trace[1].source, trace[2].source, trace[3].source,
           trace[4].source, trace[5].source>>
           = <<story_generator, critic, reviser, critic, reviser>>

\* grammar_checker has emitted its event, the sixth of the run.
C10_Witness ==
    /\ pipeline = "A"
    /\ finished[grammar_checker] = 1
    /\ EventsBefore(grammar_checker) = 5
    /\ trace[6].source = grammar_checker

\* ---------------------------------------------------------------------
\* The work units of a composite in the order one full run invokes them.
RECURSIVE Repeat(_, _)
Repeat(seq, n) == IF n = 0 THEN <<>> ELSE seq \o Repeat(seq, n - 1)

Flatten(agent) == Repeat(agent.sub_agents, agent.max_iterations)

\* Depth-first order of the composite tree of each pipeline; the last
\* story_generator of pipeline A is the conditional retry.
DepthFirstA ==
    <<story_generator>> \o Flatten(StoryFlow_loop_agent)
      \o Flatten(StoryFlow_sequential_agent) \o <<story_generator>>

DepthFirstB ==
    Flatten(BlogGen_sequential_agent) \o Flatten(BlogGen_loop_agent)
      \o Flatten(BlogGen_second_loop_agent)

DepthFirstS == Flatten(code_pipeline_agent)

\* The events from the i-th on follow the order df, k final events having
\* come before them: a final event is that of the next work unit of df, a
\* non-final event comes from the work unit whose final event is next.
RECURSIVE FollowsOrder(_, _, _)
FollowsOrder(df, i, k) ==
    IF i > Len(trace) THEN TRUE
    ELSE /\ k < Len(df)
         /\ trace[i].source = df[k + 1]
         /\ FollowsOrder(df, i + 1, IF trace[i].isFinal THEN k + 1 ELSE k)

InDepthFirstOrder ==
    CASE pipeline = "A" -> FollowsOrder(DepthFirstA, 1, 0)
      [] pipeline = "B" -> FollowsOrder(DepthFirstB, 1, 0)
      [] OTHER -> FollowsOrder(DepthFirstS, 1, 0)

\* The work units of the pipeline that is run.
UnitsOf(pl) ==
    CASE pl = "A" -> UnitsA
      [] pl = "B" -> UnitsB
      [] OTHER -> UnitsS

\* The number of invocations that have ended.
FinishedTotal ==
    CASE pipeline = "A" ->
           finished[story_generator] + finished[critic] + finished[reviser]
             + finished[grammar_checker] + finished[tone_checker]
      [] pipeline = "B" ->
           finished[title_generator] + finished[structure_generator]
             + finished[blog_generator] + finished[seo_optimizer]
             + finished[html_generator] + finished[review_agent]
      [] OTHER ->
           finished[code_generation_agent] + finished[code_review_agent]
             + finished[code_refactoring_agent]

\* The final events among the events yielded.
FinalEvents == SelectSeq(trace, LAMBDA e : e.isFinal)

\* source and finality of the events call_agent has pulled or has waiting.
Delivered ==
    [i \in 1..(Len(pulled) + Len(queue)) |->
       LET e == (pulled \o queue)[i]
       IN [source |-> e.source, isFinal |-> e.isFinal]]

\* C11  Event ordering.  The events an orchestrator has yielded are those
\* its work units produced, in the depth-first order of the composite
\* tree: the k-th final event comes from the k-th work unit of that order
\* and every non-final event from the work unit whose final event follows
\* it; one event per finished invocation and per partial answer, none
\* more (no drop, no duplicate); the last event is the one last produced;
\* call_agent receives them in the same order.
C11_EventOrdering ==
    /\ Len(trace) = FinishedTotal + inter
    /\ Len(FinalEvents) = FinishedTotal
    /\ \A u \in Units \ UnitsOf(pipeline) : finished[u] = 0
    /\ InDepthFirstOrder
    /\ trace # <<>> =>
         /\ trace[Len(trace)].source = lastEvent.source
         /\ trace[Len(trace)].isFinal = lastEvent.isFinal
    /\ Len(Delivered) <= Len(trace)
    /\ \A i \in 1..Len(Delivered) : Delivered[i] = trace[i]
    /\ cpc = "loop" => Len(Delivered) = Len(trace)

\* Pipeline B has yielded a partial answer of structure_generator between
\* the final events of title_generator and structure_generator, and its
\* first loop is in its second iteration.
C11_Witness ==
    /\ pipeline = "B"
    /\ Len(trace) = 6
    /\ trace[1] = [source |-> title_generator, isFinal |-> TRUE]
    /\ trace[2] = [source |-> structure_generator, isFinal |-> FALSE]
    /\ trace[3] = [source |-> structure_generator, isFinal |-> TRUE]
    /\ trace[4].source = blog_generator
    /\ trace[5].source = seo_optimizer
    /\ trace[6] = [source |-> blog_generator, isFinal |-> TRUE]

\* ---------------------------------------------------------------------
\* The key whose absence the logged error reports.
ReportedKey ==
    CASE logged = "No story generated." -> "current_story"
      [] logged = "No blog structure generated." -> "blog_structure"
      [] logged = "No blog content generated." -> "blog_content"
      [] OTHER -> "html_code"

\* The number of events of a complete run of the pipeline without partial
\* answers and without the retry.
FullRunEvents ==
    CASE pipeline = "A" -> 7
      [] pipeline = "B" -> 14
      [] OTHER -> 3

\* call_agent has read the session state after its loop, and what it
\* prints is the state the orchestrator left.
StateReported ==
    /\ cpc = "returned"
    /\ final_state # NoState
    /\ final_state = state

EndsWithFinalEvent ==
    trace # <<>> =>
      IF running = NoUnit THEN lastEvent.isFinal
      ELSE lastEvent.source = running => ~lastEvent.isFinal

\* The last event is the final answer, with a payload, of an invocation.
LastInvocationSucceeded == lastEvent.isFinal /\ lastEvent.payload # NoPayload

\* What the session state holds under k when only call_agent's topic and
\* the texts stored under output keys in this run were written.
ExpectedValue(k) ==
    IF written[k] # Absent THEN written[k]
    ELSE IF cpc \notin {"start", "not_found"} /\ pipeline # "S"
              /\ k = TopicKey(pipeline)
         THEN state[k]
         ELSE seed[k]

\* The work units that declare key k as their output key.
WritersOf == [k \in Keys |-> {u \in Units : output_key(u) = k}]

\* Every invocation ends with one final event, nothing is stored under a
\* key no finished work unit declares, and every other key holds what it
\* held before the run.
WritesOnlyDeclaredKeys ==
    /\ EndsWithFinalEvent
    /\ Len(FinalEvents) = FinishedTotal
    /\ \A k \in Keys :
         /\ written[k] # Absent =>
              \E u \in WritersOf[k] : finished[u] >= 1
         /\ state[k] = ExpectedValue(k)
         /\ state[k] # NoPayload
    /\ (cpc \notin {"start", "not_found"} /\ pipeline # "S") =>
         state[TopicKey(pipeline)] \in Topics

\* C13 as stated: every work unit declares exactly one output key, and the
\* payload of the final event of a successful invocation is what the
\* session state holds under that key; no other key is changed.
C13_AsStated ==
    /\ LastInvocationSucceeded =>
         /\ output_key(lastEvent.source) \in Keys
         /\ state[output_key(lastEvent.source)] = lastEvent.payload
    /\ WritesOnlyDeclaredKeys

\* C13, amended.  Every work unit but code_refactoring_agent declares
\* exactly one output key and code_refactoring_agent declares none.  A
\* successful invocation ends with exactly one final event; the payload
\* of that event is stored under the declared output key if there is one,
\* and no other key of the session state is changed; the answer of
\* code_refactoring_agent is stored nowhere.
C13_WriteContract ==
    /\ \A u \in Units \ {code_refactoring_agent} : output_key(u) \in Keys
    /\ output_key(code_refactoring_agent) = NoKey
    /\ (LastInvocationSucceeded /\ output_key(lastEvent.source) # NoKey) =>
         /\ state[output_key(lastEvent.source)] = lastEvent.payload
         /\ written[output_key(lastEvent.source)] = lastEvent.payload
    /\ WritesOnlyDeclaredKeys

\* code_refactoring_agent has answered "a": the state holds the two texts
\* of the work units before it and the answer is under no key.
C13_Witness ==
    /\ pipeline = "S"
    /\ seed = EmptyState
    /\ lastEvent = [source |-> code_refactoring_agent, payload |-> "a",
                    isFinal |-> TRUE]
    /\ finished[code_refactoring_agent] = 1
    /\ state["generated_code"] = "b"
    /\ state["code_review"] = "b"
    /\ \A k \in Keys \ {"generated_code", "code_review"} : state[k] = Absent

\* ---------------------------------------------------------------------
\* The last event is the final event of an invocation that got no answer
\* from the generation capability.
LastInvocationFailed == lastEvent.isFinal /\ lastEvent.payload = NoPayload

\* The work units of the composite the orchestrator is running.
RunningComposite ==
    IF pc \in RunPcs
    THEN {AgentAt(pc).sub_agents[i] : i \in 1..Len(AgentAt(pc).sub_agents)}
    ELSE {}

FailedInvocationStep ==
    /\ running # NoUnit
    /\ running' = NoUnit
    /\ lastEvent'.isFinal
    /\ lastEvent'.payload = NoPayload

PresentKeys == {k \in Keys : state[k] # Absent}

\* C15  Key monotonicity.  No step of a run removes a key from the
\* session state: a key that is present stays present (its value may be
\* overwritten), so a key once present is present in every later state.
C15_KeyMonotonicity ==
    [][PresentKeys \subseteq {k \in Keys : state'[k] # Absent}]_vars

\* Pipeline A on a session that held a story: story_generator overwrote
\* current_story, critic got no answer and critique still holds the old
\* text; the topic and every key of the earlier run are still there.
C15_Witness ==
    /\ pipeline = "A"
    /\ seed["current_story"] = "b"
    /\ written["current_story"] = "a"
    /\ state["current_story"] = "a"
    /\ finished[critic] >= 1
    /\ written["critique"] = Absent
    /\ state["critique"] = "b"
    /\ {k \in Keys : seed[k] # Absent} \subseteq PresentKeys

\* ---------------------------------------------------------------------
\* The work units that were entered and have not emitted their final
\* event yet.
Executing == {u \in Units : invoked[u] > finished[u]}

\* C16  Mutual exclusion of work units.  At most one work unit is
\* executing, and it is the one the orchestrator is waiting for; every
\* work unit has at most one invocation that has not ended; while a work
\* unit is executing the orchestrator is inside a composite and that
\* composite is at the child that is executing: no next child and no
\* next stage has been started.
C16_MutualExclusion ==
    /\ Cardinality(Executing) <= 1
    /\ \A u \in Units : invoked[u] - finished[u] \in {0, 1}
    /\ Executing = IF running = NoUnit THEN {} ELSE {running}
    /\ running # NoUnit =>
         /\ pc \in RunPcs
         /\ AgentAt(pc).sub_agents[idx] = running

\* reviser is executing in the second iteration of the loop of pipeline A
\* and every work unit invoked before it has ended.
C16_Witness ==
    /\ pipeline = "A"
    /\ Executing = {reviser}
    /\ invoked[reviser] = 2
    /\ finished[reviser] = 1
    /\ finished[critic] = 2
    /\ finished[story_generator] = 1
    /\ invoked[grammar_checker] = 0

\* ---------------------------------------------------------------------
\* The orchestrator of pipeline B has left its first loop.
ContentLoopLeft ==
    /\ pipeline = "B"
    /\ pc \in {"B133", "B141", "B145", "done"}
    /\ logged # "No blog structure generated."

\* Blog_Generator has not stored anything under blog_content in this run.
NeverWroteContent == written["blog_content"] = Absent

\* The orchestrator of pipeline B has halted at the check of blog_content.
HaltedAtContent ==
    /\ pc = "done"
    /\ logged = "No blog content generated."
    /\ invoked[html_generator] = 0
    /\ invoked[review_agent] = 0

\* C17 as stated: when Blog_Generator never writes blog_content, it and
\* SEO_Optimizer are still invoked 3 times each, and after the loop the
\* orchestrator halts without invoking HTML_Generator or Review_Agent.
C17_AsStated ==
    (ContentLoopLeft /\ NeverWroteContent) =>
      /\ invoked[blog_generator] = 3
      /\ invoked[seo_optimizer] = 3
      /\ pc # "B133" => HaltedAtContent

\* C17, amended.  A loop is not left because a child has not written its
\* key: the loops of pipeline A and of pipeline B have run all their
\* iterations when they are left, also when critique, blog_content or
\* optimized_blog_content was never written.  When Blog_Generator never
\* writes blog_content, the orchestrator halts after the loop, with
\* HTML_Generator and Review_Agent never invoked, if and only if the
\* session state holds no non-empty blog_content from before the run.
C17_LoopIgnoresMissingKey ==
    /\ (ContentLoopLeft /\ NeverWroteContent) =>
         /\ invoked[blog_generator] = 3 /\ finished[blog_generator] = 3
         /\ invoked[seo_optimizer] = 3 /\ finished[seo_optimizer] = 3
         /\ state["blog_content"] = seed["blog_content"]
         /\ pc # "B133" =>
              (HaltedAtContent <=> seed["blog_content"] \in {Absent, ""})
    /\ (pipeline = "A" /\ invoked[grammar_checker] >= 1) =>
         /\ finished[critic] = 2
         /\ finished[reviser] = 2

\* Fresh session: Blog_Generator got no answer three times, SEO_Optimizer
\* ran three times, and the orchestrator halted at the check.
C17_Witness ==
    /\ pipeline = "B"
    /\ FreshSession
    /\ NeverWroteContent
    /\ finished[blog_generator] = 3
    /\ finished[seo_optimizer] = 3
    /\ HaltedAtContent

\* ---------------------------------------------------------------------
\* The first check of pipeline B has been made.
StructureDecided ==
    pipeline = "B" /\ pc \in {"B127", "B133", "B141", "B145", "done"}

\* The ContentAndOptimize loop has been entered.
ContentLoopStarted ==
    \/ pc \in {"B127", "B133", "B141", "B145"}
    \/ pc = "done" /\ invoked[blog_generator] >= 1

\* The second check of pipeline B has been made.
ContentDecided ==
    /\ pipeline = "B"
    /\ pc \in {"B141", "B145", "done"}
    /\ ContentLoopStarted

\* The HtmlAndReview loop has been entered.
HtmlLoopStarted ==
    \/ pc \in {"B141", "B145"}
    \/ pc = "done" /\ invoked[html_generator] >= 1

\* C18  Exact gates of pipeline B.  Once the title and structure sequence
\* has ended and the check is made, the ContentAndOptimize loop is started
\* if and only if blog_structure is present and non-empty; once that loop
\* has ended and the check is made, the HtmlAndReview loop is started if
\* and only if blog_content is present and non-empty.  No other key
\* enters the decision.
C18_ExactGatesB ==
    /\ StructureDecided =>
         (ContentLoopStarted <=> ~AbsentOrEmpty("blog_structure"))
    /\ ContentDecided =>
         (HtmlLoopStarted <=> ~AbsentOrEmpty("blog_content"))
    /\ (pipeline = "B" /\ HtmlLoopStarted) =>
         /\ ~AbsentOrEmpty("blog_structure")
         /\ ~AbsentOrEmpty("blog_content")

\* Fresh session: Title_Generator, SEO_Optimizer and Review_Agent never
\* wrote their keys, blog_structure and blog_content are there, and both
\* loops of pipeline B ran to their end.
C18_Witness ==
    /\ pipeline = "B"
    /\ FreshSession
    /\ pc = "done"
    /\ state["blog_title"] = Absent
    /\ state["optimized_blog_content"] = Absent
    /\ state["review_result"] = Absent
    /\ ~AbsentOrEmpty("blog_structure")
    /\ ~AbsentOrEmpty("blog_content")
    /\ finished[seo_optimizer] = 3
    /\ finished[review_agent] = 3

\* ---------------------------------------------------------------------
\* The first story_generator has ended, nothing has rewritten
\* current_story since, and the key is absent or empty.
FirstStoryMissing ==
    /\ pipeline = "A"
    /\ finished[story_generator] >= 1
    /\ finished[reviser] = 0
    /\ AbsentOrEmpty("current_story")

\* C19  Initial gate of pipeline A.  When current_story is absent or
\* empty after the first story_generator, the orchestrator is at the check
\* or has ended with the error logged; story_generator was invoked exactly
\* once and no other work unit at all, whatever tone_check_result the
\* session state held before the run.
C19_InitialGateA ==
    FirstStoryMissing =>
      /\ pc \in {"A103", "done"}
      /\ pc = "done" => logged = "No story generated."
      /\ invoked[story_generator] = 1
      /\ finished[story_generator] = 1
      /\ \A u \in UnitsA \ {story_generator} : invoked[u] = 0

\* The session held tone_check_result = "negative" from an earlier run,
\* story_generator stored an empty story, and the orchestrator has ended
\* after that one invocation.
C19_Witness ==
    /\ FirstStoryMissing
    /\ seed["tone_check_result"] = "negative"
    /\ state["tone_check_result"] = "negative"
    /\ pc = "done"
    /\ logged = "No story generated."
    /\ invoked[story_generator] = 1

\* ---------------------------------------------------------------------
\* The orchestrator of pipeline A has ended after passing its check of
\* current_story.
StoryFlowCompleted == pipeline = "A" /\ pc = "done" /\ logged = NoError

\* C20  Pipeline A has only one gate.  An orchestrator that has passed the
\* check of current_story invokes critic and reviser twice each and then
\* grammar_checker and tone_checker once each, whatever they write; it
\* regenerates the story if and only if tone_check_result is exactly
\* "negative" after the grammar and tone sequence, so an absent key or any
\* other value ends the run without a retry.  It ends in no other way
\* than at the check or after the tone test.
C20_OnlyOneGateA ==
    /\ StoryFlowCompleted =>
         /\ finished[critic] = 2 /\ invoked[critic] = 2
         /\ finished[reviser] = 2 /\ invoked[reviser] = 2
         /\ finished[grammar_checker] = 1 /\ invoked[grammar_checker] = 1
         /\ finished[tone_checker] = 1 /\ invoked[tone_checker] = 1
         /\ invoked[story_generator] =
              IF state["tone_check_result"] = "negative" THEN 2 ELSE 1
    /\ (pipeline = "A" /\ pc \in {"A124", "A126"}) =>
         state["tone_check_result"] = "negative"
    /\ (pipeline = "A" /\ pc = "done") =>
         logged \in {NoError, "No story generated."}
    /\ pipeline = "A" => pc # "raised"

\* Fresh session: critic, grammar_checker and tone_checker never wrote
\* their keys; the orchestrator ran all seven invocations and ended
\* without a retry, tone_check_result being absent.
C20_Witness ==
    /\ StoryFlowCompleted
    /\ FreshSession
    /\ state["critique"] = Absent
    /\ state["grammar_check_result"] = Absent
    /\ state["tone_check_result"] = Absent
    /\ finished[critic] = 2
    /\ finished[tone_checker] = 1
    /\ invoked[story_generator] = 1

\* ---------------------------------------------------------------------
\* The keys of pipeline A that story_generator does not write.
CheckKeys == {"critique", "grammar_check_result", "tone_check_result"}

\* The retry of pipeline A has been started.
RetryStarted == pipeline = "A" /\ invoked[story_generator] = 2

\* C21  The retry is terminal and leaves the checks stale.  Once the
\* second story_generator has been started, critic and reviser stay at
\* two invocations and grammar_checker and tone_checker at one, all of
\* them ended; the orchestrator is in the retry branch or has ended;
\* tone_check_result is still "negative"; and no step from then on
\* changes critique, grammar_check_result or tone_check_result.
C21_RetryIsTerminal ==
    /\ [](RetryStarted =>
           /\ pc \in {"A124", "A126", "done"}
           /\ running \in {NoUnit, story_generator}
           /\ invoked[critic] = 2 /\ finished[critic] = 2
           /\ invoked[reviser] = 2 /\ finished[reviser] = 2
           /\ invoked[grammar_checker] = 1 /\ finished[grammar_checker] = 1
           /\ invoked[tone_checker] = 1 /\ finished[tone_checker] = 1
           /\ state["tone_check_result"] = "negative")
    /\ [][RetryStarted =>
           \A k \in CheckKeys : state'[k] = state[k]]_vars

\* The retry stored a new story and the orchestrator has ended: the state
\* still holds the critique and the grammar result written before the
\* retry, and the tone is still "negative".
C21_Witness ==
    /\ RetryStarted
    /\ pc = "done"
    /\ finished[story_generator] = 2
    /\ lastEvent = [source |-> story_generator, payload |-> "a",
                    isFinal |-> TRUE]
    /\ state["current_story"] = "a"
    /\ state["critique"] = "b"
    /\ state["grammar_check_result"] = "b"
    /\ written["tone_check_result"] = "negative"
    /\ state["tone_check_result"] = "negative"

\* ---------------------------------------------------------------------
\* The work units that write current_story.
StoryWriters == {story_generator, reviser}

\* The event is the final answer, with a text, of a writer of
\* current_story.
IsStoryWrite(e) ==
    e.isFinal /\ e.payload # NoPayload /\ e.source \in StoryWriters

\* A step in which an event is emitted.
EventEmitted == Len(trace') = Len(trace) + 1

\* C22  Shared key, last writer wins.  In pipeline A a step in which
\* story_generator or reviser ends with a text leaves that text in
\* current_story, whatever the key held; every other step, one in which
\* one of them ends without a text included, leaves current_story as it
\* is.  So in every state, the terminal ones included, current_story holds
\* the most recent write by either of them: when the last event is such a
\* write, its text.
C22_LastWriterWins ==
    /\ [][pipeline = "A" =>
           IF EventEmitted /\ IsStoryWrite(lastEvent')
           THEN state'["current_story"] = lastEvent'.payload
           ELSE state'["current_story"] = state["current_story"]]_vars
    /\ []((pipeline = "A" /\ IsStoryWrite(lastEvent)) =>
            state["current_story"] = lastEvent.payload)

\* The session held the story "b"; reviser ended its second iteration and
\* the retry of story_generator stored "a" as the last write of the run,
\* which is what the terminal state holds.
C22_Witness ==
    /\ pipeline = "A"
    /\ pc = "done"
    /\ seed["current_story"] = "b"
    /\ finished[reviser] = 2
    /\ finished[story_generator] = 2
    /\ lastEvent = [source |-> story_generator, payload |-> "a",
                    isFinal |-> TRUE]
    /\ state["current_story"] = "a"

\* ---------------------------------------------------------------------
\* The orchestrator of pipeline A is at the statement of the retry branch
\* that reads state['current_story'], or has executed it.
AtRetryRead == pipeline = "A" /\ pc = "A126"

\* C23  The read in the retry branch is safe.  Whenever the orchestrator
\* of pipeline A is at the read of state['current_story'] that follows
\* the second story_generator, the key is present; once the retry has
\* been entered the key is present, and the orchestrator never ends by
\* raising.
C23_RetryReadIsSafe ==
    /\ AtRetryRead => state["current_story"] # Absent
    /\ (pipeline = "A" /\ pc \in {"A124", "A126"}) =>
         state["current_story"] # Absent
    /\ pc # "raised"

\* Fresh session: the second story_generator ended without an answer and
\* the orchestrator is at the read; current_story is there, from a write
\* before the retry.
C23_Witness ==
    /\ AtRetryRead
    /\ FreshSession
    /\ finished[story_generator] = 2
    /\ lastEvent = [source |-> story_generator, payload |-> NoPayload,
                    isFinal |-> TRUE]
    /\ state["current_story"] # Absent

\* ---------------------------------------------------------------------
\* No work unit has been invoked and the agent tree has not been started.
NothingInvoked ==
    /\ pc = "idle"
    /\ running = NoUnit
    /\ trace = <<>>
    /\ \A u \in Units : invoked[u] = 0

\* C24: in pipeline B, call_agent stores the caller's topic under
\* blog_topic before any work unit is invoked (whatever an earlier call
\* left there is replaced), and from then on no step of a work unit, of
\* the orchestrator or of call_agent changes it; when the session is not
\* found, call_agent returns with no work unit invoked and the session
\* state as it was.
C24_SeedKeySetFirst ==
    /\ []((pipeline = "B" /\ cpc = "start") => NothingInvoked)
    /\ [][(pipeline = "B" /\ cpc = "start" /\ cpc' = "loop") =>
            /\ NothingInvoked
            /\ state'["blog_topic"] \in Topics
            /\ \A u \in Units : invoked'[u] = 0]_vars
    /\ [][(pipeline = "B" /\ cpc # "start") =>
            state'["blog_topic"] = state["blog_topic"]]_vars
    /\ []((pipeline = "B" /\ cpc \notin {"start", "not_found"}) =>
            /\ state["blog_topic"] \in Topics
            /\ written["blog_topic"] = Absent)
    /\ []((pipeline = "B" /\ cpc = "not_found") =>
            /\ NothingInvoked
            /\ state = seed
            /\ written = EmptyState
            /\ queue = <<>> /\ pulled = <<>>)
    /\ [][(pipeline = "B" /\ cpc = "not_found") => UNCHANGED vars]_vars

\* A run of pipeline B on a session that an earlier call left a topic in
\* has run to its end, and blog_topic holds the topic of this call, in the
\* session and in the state call_agent reads back.
C24_Witness ==
    /\ pipeline = "B"
    /\ seed["blog_topic"] = "b"
    /\ pc = "done"
    /\ logged = NoError
    /\ finished[title_generator] >= 1
    /\ finished[review_agent] >= 1
    /\ state["blog_topic"] = "t2"
    /\ cpc = "returned"
    /\ final_state["blog_topic"] = "t2"
====
